---- MODULE Spec2Model ----
(***************************************************************************)
(* Model of tools/audit_event_system.py: the event system auditor.         *)
(*                                                                         *)
(* One run of main(): the three extractions (Go struct, EventType enum,    *)
(* Bruno .bru files), the three validation methods, the summary and the    *)
(* exit status.  The inputs (the three artifacts on disk) are chosen in    *)
(* Init from small sets; every method of EventSystemAuditor is one action. *)
(*                                                                         *)
(* Abstractions of the input domain:                                       *)
(*  - a file name is a number: i stands for the i-th name in the           *)
(*    lexicographic order that sorted() uses on the Paths;                 *)
(*  - a payload is a function from its JSON keys to values; the value of   *)
(*    `type` is a string (BrunoEvent.event_type: str), every other value   *)
(*    is "v", since no check reads it;                                     *)
(*  - an issue message is a record of the format string used (kind) and    *)
(*    the values interpolated into it.                                     *)
(***************************************************************************)
EXTENDS Integers, Sequences, FiniteSets, TLC

VARIABLES
    pc,                 \* position in main() / run_audit()
    events_file,        \* internal/models/events.go
    enum_file,          \* internal/models/event_types_generated.go
    bruno_dir,          \* bruno/Ingestion/Events
    go_fields,          \* self.go_fields
    bruno_events,       \* self.bruno_events
    event_types_go,     \* self.event_types_go
    event_types_bruno,  \* self.event_types_bruno
    results,            \* self.results
    out,                \* standard output: the phase banners and the summary
    report,             \* standard output: the figures of each summary printed
    exit_code           \* argument of sys.exit, -1 while running

vars == <<pc, events_file, enum_file, bruno_dir, go_fields, bruno_events,
          event_types_go, event_types_bruno, results, out, report, exit_code>>

inputs == <<events_file, enum_file, bruno_dir>>

----------------------------------------------------------------------------
(* Bounds of the model *)

\* Number of file names the sample directory can hold.
MaxFiles == 2

\* expected_count of validate_event_counts, scaled down from the source's
\* 105 so that the all-match case is within reach of MaxFiles samples.
expected_count == 2

----------------------------------------------------------------------------
(* Input domain *)

FileNames == 1..MaxFiles

\* Lexicographic order of the strings used as event types.
StrOrder == <<"", "jump", "player_kill", "x", "y">>

\* Order in which the keys of a JSON object are written in a sample file
\* (dict iteration order is insertion order).
KeyOrder == <<"type", "a", "c", "event_type", "guid", "player_guid",
              "attacker_guid", "victim_guid">>

NoPayload == [k \in {} |-> "v"]

\* A JSON object with a `type` key of value t and the keys K.
Obj(t, K) == [k \in K \cup {"type"} |-> IF k = "type" THEN t ELSE "v"]

\* A JSON object without the `type` key.
ObjNoType(K) == [k \in K |-> "v"]

SamplePayloads ==
    { Obj("x", {"a"}),
      Obj("y", {"a"}),
      Obj("player_kill", {"attacker_guid", "victim_guid"}),
      Obj("player_kill", {"player_guid"}),
      Obj("jump", {"player_guid"}),
      Obj("jump", {}),
      Obj("x", {"guid"}),
      Obj("player_kill", {"guid"}),
      Obj("x", {"a", "c", "event_type"}),
      Obj("", {"a"}),
      ObjNoType({"a", "c"}),
      ObjNoType({"guid"}) }

\* Payloads that generate_bruno_events.py writes (array form).
GeneratedPayloads == { Obj("x", {"a"}) }

Absent == [body |-> "absent", payload |-> NoPayload]

\* Content of a .bru file: the body:json block is missing ("none"), is not
\* JSON ("invalid"), is a JSON array holding one object ("array") or is a
\* JSON object ("object").
FileContents ==
    { [body |-> "none", payload |-> NoPayload],
      [body |-> "invalid", payload |-> NoPayload] }
    \cup { [body |-> "object", payload |-> p] : p \in SamplePayloads }
    \cup { [body |-> "array", payload |-> p] : p \in GeneratedPayloads }

\* A field declaration of the RawEvent struct with a json tag.
Tag(name, omit) == [json_name |-> name, omitempty |-> omit]

Tags(req, opt) == { Tag(k, FALSE) : k \in req } \cup { Tag(k, TRUE) : k \in opt }

BaseTags == Tags({"type", "a"}, {"player_guid", "attacker_guid", "victim_guid"})

EventsFiles ==
    { [exists |-> FALSE, struct |-> FALSE, tags |-> {}],
      [exists |-> TRUE, struct |-> FALSE, tags |-> {}],
      [exists |-> TRUE, struct |-> TRUE, tags |-> Tags({"a"}, {"b"})],
      [exists |-> TRUE, struct |-> TRUE, tags |-> BaseTags],
      [exists |-> TRUE, struct |-> TRUE, tags |-> BaseTags \cup Tags({}, {"guid"})] }

EnumFiles ==
    { [exists |-> FALSE, consts |-> {}] }
    \cup { [exists |-> TRUE, consts |-> c] :
             c \in { {}, {"x"}, {"x", "y"}, {"x", "player_kill"},
                     {"x", "player_kill", "jump"} } }

BrunoDirs ==
    { [exists |-> FALSE, files |-> [f \in FileNames |-> Absent]] }
    \cup { [exists |-> TRUE, files |-> fs] :
             fs \in [FileNames -> FileContents \cup {Absent}] }

----------------------------------------------------------------------------
(* ValidationResult *)

NewResult == [passed |-> 0, failed |-> 0, warnings |-> 0, errors |-> <<>>]

\* A message: the format string used and the values it interpolates.  warn
\* is the warning prefix that add_warning puts in front of the text.
Msg(kind, file, key, etype, nums, actual) ==
    [warn |-> FALSE, kind |-> kind, file |-> file, key |-> key,
     etype |-> etype, nums |-> nums, actual |-> actual]

\* Messages about an artifact, a sample file, a key of a sample file, an
\* event type.
ArtifactMsg(kind) == Msg(kind, 0, "", "", <<>>, <<>>)

FileMsg(kind, file) == Msg(kind, file, "", "", <<>>, <<>>)

KeyMsg(kind, file, key) == Msg(kind, file, key, "", <<>>, <<>>)

TypeMsg(kind, etype) == Msg(kind, 0, "", etype, <<>>, <<>>)

add_error(r, msg) ==
    [r EXCEPT !.errors = Append(@, msg), !.failed = @ + 1]

add_pass(r) == [r EXCEPT !.passed = @ + 1]

\* A warning that is counted as a failure too.
add_warning_failed(r, msg) ==
    [r EXCEPT !.errors = Append(@, [msg EXCEPT !.warn = TRUE]),
              !.warnings = @ + 1, !.failed = @ + 1]

add_warning(r, msg) ==
    [r EXCEPT !.errors = Append(@, [msg EXCEPT !.warn = TRUE]),
              !.warnings = @ + 1]

is_success_strict(r) == r.failed = 0 /\ r.warnings = 0

is_success(r) == r.failed = 0

----------------------------------------------------------------------------
Init ==
    /\ pc = "parse_go_struct"
    /\ events_file \in EventsFiles
    /\ enum_file \in EnumFiles
    /\ bruno_dir \in BrunoDirs
    /\ go_fields = [k \in {} |-> [is_required |-> TRUE]]
    /\ bruno_events = <<>>
    /\ event_types_go = {}
    /\ event_types_bruno = {}
    /\ results = NewResult
    /\ out = <<>>
    /\ report = <<>>
    /\ exit_code = -1

----------------------------------------------------------------------------
(* Phase 1: parse_go_struct *)

\* The json names that the field pattern finds in the struct body.
JsonNames(tags) == { t.json_name : t \in tags }

\* self.go_fields[json_name] = GoStructField(...) for every match.
ParsedFields(fields, tags) ==
    [k \in DOMAIN fields \cup JsonNames(tags) |->
        IF k \in JsonNames(tags)
          THEN [is_required |-> ~(CHOOSE t \in tags : t.json_name = k).omitempty]
          ELSE fields[k]]

parse_go_struct ==
    /\ pc = "parse_go_struct"
    /\ IF ~events_file.exists
         THEN /\ results' = add_error(results, ArtifactMsg("Cannot find events.go"))
              /\ UNCHANGED go_fields
         ELSE IF ~events_file.struct
           THEN /\ results' = add_error(results,
                                ArtifactMsg("Cannot find RawEvent struct definition"))
                /\ UNCHANGED go_fields
           ELSE /\ go_fields' = ParsedFields(go_fields, events_file.tags)
                /\ UNCHANGED results
    /\ out' = Append(out, "[1/6]")
    /\ pc' = "parse_event_types_enum"
    /\ UNCHANGED <<inputs, report, bruno_events, event_types_go, event_types_bruno,
                   exit_code>>

----------------------------------------------------------------------------
(* Phase 2: parse_event_types_enum *)

parse_event_types_enum ==
    /\ pc = "parse_event_types_enum"
    /\ IF ~enum_file.exists
         THEN /\ results' = add_error(results,
                              ArtifactMsg("Cannot find event_types_generated.go"))
              /\ UNCHANGED event_types_go
         ELSE /\ event_types_go' = event_types_go \cup enum_file.consts
              /\ UNCHANGED results
    /\ out' = Append(out, "[2/6]")
    /\ pc' = "parse_bruno_files"
    /\ UNCHANGED <<inputs, report, go_fields, bruno_events, event_types_bruno, exit_code>>

----------------------------------------------------------------------------
(* Phase 3: parse_bruno_files *)

\* dict.get(key, default)
Get(payload, key, default) ==
    IF key \in DOMAIN payload THEN payload[key] ELSE default

BrunoEvent(file, payload) ==
    [file_name |-> file, event_type |-> Get(payload, "type", ""),
     payload |-> payload]

NoEvent == [file_name |-> 0, event_type |-> "", payload |-> NoPayload]

parse_bru_file_keepinvalid(file, content, r) ==
    CASE content.body = "none" ->
           [ret |-> "None", event |-> NoEvent, results |-> r]
      [] content.body = "array" ->
           [ret |-> "raise", event |-> NoEvent, results |-> r]
      [] OTHER ->
           [ret |-> "event", event |-> BrunoEvent(file, content.payload),
            results |-> IF content.body = "invalid"
                          THEN add_error(r, FileMsg("Invalid JSON", file))
                          ELSE r]

\* A file without a body:json block is reported.
parse_bru_file_nobodyerror(file, content, r) ==
    CASE content.body = "none" ->
           [ret |-> "None", event |-> NoEvent,
            results |-> add_error(r, FileMsg("Invalid JSON", file))]
      [] content.body = "invalid" ->
           [ret |-> "None", event |-> NoEvent,
            results |-> add_error(r, FileMsg("Invalid JSON", file))]
      [] content.body = "array" ->
           [ret |-> "raise", event |-> NoEvent, results |-> r]
      [] OTHER ->
           [ret |-> "event", event |-> BrunoEvent(file, content.payload),
            results |-> r]

\* parse_bru_file: ret is "None", "event" or "raise" (json.loads returned a
\* list, which has no get: AttributeError leaves the method).
parse_bru_file(file, content, r) ==
    CASE content.body = "none" ->
           [ret |-> "None", event |-> NoEvent, results |-> r]
      [] content.body = "invalid" ->
           [ret |-> "None", event |-> NoEvent,
            results |-> add_error(r, FileMsg("Invalid JSON", file))]
      [] content.body = "array" ->
           [ret |-> "raise", event |-> NoEvent, results |-> r]
      [] OTHER ->
           [ret |-> "event", event |-> BrunoEvent(file, content.payload),
            results |-> r]

\* The .bru files of the directory, in any order glob may yield them.
GlobFiles(dir) == { f \in FileNames : dir.files[f] # Absent }

Listings(S) ==
    { s \in [1..Cardinality(S) -> S] :
        \A i, j \in 1..Cardinality(S) : i # j => s[i] # s[j] }

RECURSIVE Insert(_, _)
Insert(x, s) ==
    IF s = <<>> THEN <<x>>
    ELSE IF x <= Head(s) THEN <<x>> \o s
    ELSE <<Head(s)>> \o Insert(x, Tail(s))

\* sorted(...) on the paths.
\* The order of the directory listing, unsorted.
sorted_none(s) == s

RECURSIVE sorted(_)
sorted(s) == IF s = <<>> THEN <<>> ELSE Insert(Head(s), sorted(Tail(s)))

\* One iteration of the loop of parse_bruno_files.
LoadFile(st, file, dir) ==
    LET res == parse_bru_file(file, dir.files[file], st.results) IN
    CASE res.ret = "raise" ->
           [st EXCEPT !.results = add_error(res.results,
                                            FileMsg("Failed to parse", file))]
      [] res.ret = "event" ->
           [events |-> Append(st.events, res.event),
            types |-> st.types \cup {res.event.event_type},
            results |-> res.results]
      [] OTHER -> [st EXCEPT !.results = res.results]

\* The loop without the try of its body: the first exception ends it.
RECURSIVE LoadFiles_notry(_, _, _)
LoadFiles_notry(st, files, dir) ==
    IF files = <<>> THEN st
    ELSE IF parse_bru_file(Head(files), dir.files[Head(files)], st.results).ret = "raise"
      THEN LoadFile(st, Head(files), dir)
      ELSE LoadFiles_notry(LoadFile(st, Head(files), dir), Tail(files), dir)

RECURSIVE LoadFiles(_, _, _)
LoadFiles(st, files, dir) ==
    IF files = <<>> THEN st
    ELSE LoadFiles(LoadFile(st, Head(files), dir), Tail(files), dir)

parse_bruno_files ==
    /\ pc = "parse_bruno_files"
    /\ IF ~bruno_dir.exists
         THEN /\ results' = add_error(results,
                              ArtifactMsg("Cannot find Bruno events directory"))
              /\ UNCHANGED <<bruno_events, event_types_bruno>>
         ELSE \E listing \in Listings(GlobFiles(bruno_dir)) :
                LET st == LoadFiles([events |-> bruno_events,
                                     types |-> event_types_bruno,
                                     results |-> results],
                                    sorted(listing), bruno_dir) IN
                /\ bruno_events' = st.events
                /\ event_types_bruno' = st.types
                /\ results' = st.results
    /\ out' = Append(out, "[3/6]")
    /\ pc' = "validate_bruno_payloads"
    /\ UNCHANGED <<inputs, report, go_fields, event_types_go, exit_code>>

----------------------------------------------------------------------------
(* Phase 4: validate_bruno_payloads *)

\* payload.items(): the keys of the payload in the order of the file.
Items(payload) == SelectSeq(KeyOrder, LAMBDA k : k \in DOMAIN payload)

\* The body of the loop over the fields of one payload.
CheckField(r, event, field_name, fields) ==
    IF field_name \notin DOMAIN fields
      THEN IF field_name = "event_type"
             THEN add_error(r, KeyMsg("Uses 'event_type' instead of 'type'",
                                      event.file_name, field_name))
           ELSE IF field_name = "guid"
             THEN add_error(r, KeyMsg("Ambiguous 'guid' field",
                                      event.file_name, field_name))
           ELSE add_error(r, KeyMsg("Unknown field", event.file_name, field_name))
      ELSE r

RECURSIVE CheckFields(_, _, _, _)
CheckFields(r, event, names, fields) ==
    IF names = <<>> THEN r
    ELSE CheckFields(CheckField(r, event, Head(names), fields), event,
                     Tail(names), fields)

CheckPayload_nocontinue(r, event, fields) ==
    IF "type" \notin DOMAIN event.payload
      THEN CheckFields(add_error(r, FileMsg("Missing required 'type' field",
                                            event.file_name)),
                       event, Items(event.payload), fields)
      ELSE CheckFields(r, event, Items(event.payload), fields)

\* An empty `type` is taken for a missing one.
CheckPayload_falsy(r, event, fields) ==
    IF Get(event.payload, "type", "") = ""
      THEN add_error(r, FileMsg("Missing required 'type' field", event.file_name))
      ELSE CheckFields(r, event, Items(event.payload), fields)

\* The body of the loop over the events.
CheckPayload(r, event, fields) ==
    IF "type" \notin DOMAIN event.payload
      THEN add_error(r, FileMsg("Missing required 'type' field", event.file_name))
      ELSE CheckFields(r, event, Items(event.payload), fields)

RECURSIVE CheckPayloads(_, _, _)
CheckPayloads(r, events, fields) ==
    IF events = <<>> THEN r
    ELSE CheckPayloads(CheckPayload(r, Head(events), fields), Tail(events), fields)

\* The effect of validate_bruno_payloads on self.results.
PayloadsPass(r0, events, fields) ==
    LET r == CheckPayloads(r0, events, fields) IN
    \* field_mismatches, unknown_fields and missing_type grow by one entry
    \* with every add_error of this pass
    IF r.failed = r0.failed THEN add_pass(r) ELSE r

validate_bruno_payloads ==
    /\ pc = "validate_bruno_payloads"
    /\ results' = PayloadsPass(results, bruno_events, go_fields)
    /\ out' = Append(out, "[4/6]")
    /\ pc' = "validate_guid_fields"
    /\ UNCHANGED <<inputs, report, go_fields, bruno_events, event_types_go,
                   event_types_bruno, exit_code>>

----------------------------------------------------------------------------
(* Phase 5: validate_guid_fields *)

combat_events ==
    {"player_kill", "bot_killed", "team_kill", "damage",
     "player_damage", "bot_damage", "team_damage"}

single_player_events ==
    {"jump", "crouch", "prone", "stand", "sprint", "walk",
     "spawn", "respawn", "say", "say_team", "connect", "disconnect",
     "weapon_pickup", "weapon_switch", "weapon_drop", "reload",
     "item_pickup", "item_use", "item_drop"}

\* The list `actual` of the combat warning.
ActualGuids(payload) ==
    SelectSeq(<<"attacker_guid", "victim_guid", "player_guid">>,
              LAMBDA k : k \in DOMAIN payload)

CheckGuid_nocontinue(r, event) ==
    LET has_ambiguous_guid == "guid" \in DOMAIN event.payload
        has_player_guid == "player_guid" \in DOMAIN event.payload
        has_attacker_guid == "attacker_guid" \in DOMAIN event.payload
        has_victim_guid == "victim_guid" \in DOMAIN event.payload
        r0 == IF has_ambiguous_guid
                THEN add_error(r, KeyMsg("Uses ambiguous 'guid' field",
                                         event.file_name, "guid"))
                ELSE r
    IN
    IF event.event_type \in combat_events
      THEN IF ~(has_attacker_guid /\ has_victim_guid)
             THEN add_warning(r0, Msg("Combat event should have", event.file_name,
                                      "", "", <<>>, ActualGuids(event.payload)))
             ELSE r0
    ELSE IF event.event_type \in single_player_events
      THEN IF ~has_player_guid
             THEN add_warning(r0, FileMsg("Single-player event should have player_guid",
                                          event.file_name))
             ELSE r0
    ELSE r0

CheckGuid_typedonly(r, event) ==
    LET has_ambiguous_guid == "guid" \in DOMAIN event.payload
        has_player_guid == "player_guid" \in DOMAIN event.payload
        has_attacker_guid == "attacker_guid" \in DOMAIN event.payload
        has_victim_guid == "victim_guid" \in DOMAIN event.payload
    IN
    IF event.event_type \in combat_events
      THEN IF has_ambiguous_guid
             THEN add_error(r, KeyMsg("Uses ambiguous 'guid' field",
                                      event.file_name, "guid"))
           ELSE IF ~(has_attacker_guid /\ has_victim_guid)
             THEN add_warning(r, Msg("Combat event should have", event.file_name,
                                     "", "", <<>>, ActualGuids(event.payload)))
             ELSE r
    ELSE IF event.event_type \in single_player_events
      THEN IF has_ambiguous_guid
             THEN add_error(r, KeyMsg("Uses ambiguous 'guid' field",
                                      event.file_name, "guid"))
           ELSE IF ~has_player_guid
             THEN add_warning(r, FileMsg("Single-player event should have player_guid",
                                         event.file_name))
             ELSE r
    ELSE r

\* The guid Error is left out when the issue list already has one for the
\* key in this file.
CheckGuid_dedupe(r, event) ==
    LET has_ambiguous_guid == "guid" \in DOMAIN event.payload
        has_player_guid == "player_guid" \in DOMAIN event.payload
        has_attacker_guid == "attacker_guid" \in DOMAIN event.payload
        has_victim_guid == "victim_guid" \in DOMAIN event.payload
        reported == \E i \in 1..Len(r.errors) :
                       /\ r.errors[i].file = event.file_name
                       /\ r.errors[i].key = "guid"
    IN
    IF has_ambiguous_guid
      THEN IF reported THEN r
           ELSE add_error(r, KeyMsg("Uses ambiguous 'guid' field",
                                    event.file_name, "guid"))
    ELSE IF event.event_type \in combat_events
      THEN IF ~(has_attacker_guid /\ has_victim_guid)
             THEN add_warning(r, Msg("Combat event should have", event.file_name,
                                     "", "", <<>>, ActualGuids(event.payload)))
             ELSE r
    ELSE IF event.event_type \in single_player_events
      THEN IF ~has_player_guid
             THEN add_warning(r, FileMsg("Single-player event should have player_guid",
                                         event.file_name))
             ELSE r
    ELSE r

\* The body of the loop over the events.
CheckGuid(r, event) ==
    LET has_ambiguous_guid == "guid" \in DOMAIN event.payload
        has_player_guid == "player_guid" \in DOMAIN event.payload
        has_attacker_guid == "attacker_guid" \in DOMAIN event.payload
        has_victim_guid == "victim_guid" \in DOMAIN event.payload
    IN
    IF has_ambiguous_guid
      THEN add_error(r, KeyMsg("Uses ambiguous 'guid' field",
                               event.file_name, "guid"))
    ELSE IF event.event_type \in combat_events
      THEN IF ~(has_attacker_guid /\ has_victim_guid)
             THEN add_warning(r, Msg("Combat event should have", event.file_name,
                                     "", "", <<>>, ActualGuids(event.payload)))
             ELSE r
    ELSE IF event.event_type \in single_player_events
      THEN IF ~has_player_guid
             THEN add_warning(r, FileMsg("Single-player event should have player_guid",
                                         event.file_name))
             ELSE r
    ELSE r

RECURSIVE CheckGuids(_, _)
CheckGuids(r, events) ==
    IF events = <<>> THEN r
    ELSE CheckGuids(CheckGuid(r, Head(events)), Tail(events))

\* The effect of validate_guid_fields on self.results.
GuidsPass(r0, events) ==
    LET r == CheckGuids(r0, events)
        ambiguous_guid_found ==
            \E i \in 1..Len(events) : "guid" \in DOMAIN events[i].payload
    IN
    IF ~ambiguous_guid_found /\ r.warnings = 0 THEN add_pass(r) ELSE r

\* The samples with the key `guid` are taken out of the corpus.
validate_guid_fields_drop ==
    /\ pc = "validate_guid_fields"
    /\ results' = GuidsPass(results, bruno_events)
    /\ bruno_events' = SelectSeq(bruno_events, LAMBDA e : "guid" \notin DOMAIN e.payload)
    /\ out' = Append(out, "[5/6]")
    /\ pc' = "validate_event_counts"
    /\ UNCHANGED <<inputs, report, go_fields, event_types_go,
                   event_types_bruno, exit_code>>

validate_guid_fields ==
    /\ pc = "validate_guid_fields"
    /\ results' = GuidsPass(results, bruno_events)
    /\ out' = Append(out, "[5/6]")
    /\ pc' = "validate_event_counts"
    /\ UNCHANGED <<inputs, report, go_fields, bruno_events, event_types_go,
                   event_types_bruno, exit_code>>

----------------------------------------------------------------------------
(* Phase 6: validate_event_counts *)

\* The event types of S in ascending order.
SortedTypes(S) == SelectSeq(StrOrder, LAMBDA t : t \in S)

StrRank(t) == CHOOSE i \in 1..Len(StrOrder) : StrOrder[i] = t

RECURSIVE InsertType(_, _)
InsertType(x, s) ==
    IF s = <<>> THEN <<x>>
    ELSE IF StrRank(x) <= StrRank(Head(s)) THEN <<x>> \o s
    ELSE <<Head(s)>> \o InsertType(x, Tail(s))

\* The iteration order of the set, unsorted.
sorted_types_none(s) == s

\* sorted(...) on a set of event types, s being the order in which the
\* iteration of the set yields them.
RECURSIVE sorted_types(_)
sorted_types(s) ==
    IF s = <<>> THEN <<>> ELSE InsertType(Head(s), sorted_types(Tail(s)))

RECURSIVE AddTypeErrors(_, _, _)
AddTypeErrors(r, kind, types) ==
    IF types = <<>> THEN r
    ELSE AddTypeErrors(add_error(r, TypeMsg(kind, Head(types))), kind, Tail(types))

CountCheck_gofiles(r, go_count, bruno_count, bruno_file_count) ==
    LET all_match == /\ go_count = expected_count
                     /\ bruno_file_count = expected_count
    IN
    IF all_match
      THEN add_pass(r)
      ELSE add_error(r, Msg("Event count mismatch", 0, "", "",
                            <<go_count, bruno_count, bruno_file_count,
                              expected_count>>, <<>>))

CountCheck_goonly(r, go_count, bruno_count, bruno_file_count) ==
    IF go_count = expected_count
      THEN add_pass(r)
      ELSE add_error(r, Msg("Event count mismatch", 0, "", "",
                            <<go_count, bruno_count, bruno_file_count,
                              expected_count>>, <<>>))

CountCheck(r, go_count, bruno_count, bruno_file_count) ==
    LET all_match == /\ go_count = expected_count
                     /\ bruno_count = expected_count
                     /\ bruno_file_count = expected_count
    IN
    IF all_match
      THEN add_pass(r)
      ELSE add_error(r, Msg("Event count mismatch", 0, "", "",
                            <<go_count, bruno_count, bruno_file_count,
                              expected_count>>, <<>>))

CoverageCheck_missingonly(r, missing_in_bruno, extra_in_bruno) ==
    AddTypeErrors(r, "in Go but missing in Bruno", sorted_types(missing_in_bruno))

\* missing_in_bruno and extra_in_bruno are the two set differences, each in
\* the order in which the iteration of the set yields its elements.
CoverageCheck(r, missing_in_bruno, extra_in_bruno) ==
    LET r1 == AddTypeErrors(r, "in Go but missing in Bruno",
                            sorted_types(missing_in_bruno))
    IN AddTypeErrors(r1, "in Bruno but not in Go enum", sorted_types(extra_in_bruno))

CountsPass_coveragefirst(r0, events, types_go, types_bruno, missing_in_bruno, extra_in_bruno) ==
    CountCheck(CoverageCheck(r0, missing_in_bruno, extra_in_bruno),
               Cardinality(types_go), Cardinality(types_bruno), Len(events))

\* The effect of validate_event_counts on self.results.
CountsPass(r0, events, types_go, types_bruno, missing_in_bruno, extra_in_bruno) ==
    CoverageCheck(CountCheck(r0, Cardinality(types_go), Cardinality(types_bruno),
                             Len(events)),
                  missing_in_bruno, extra_in_bruno)

validate_event_counts ==
    /\ pc = "validate_event_counts"
    /\ \E missing_in_bruno \in Listings(event_types_go \ event_types_bruno) :
         \E extra_in_bruno \in Listings(event_types_bruno \ event_types_go) :
           results' = CountsPass(results, bruno_events, event_types_go,
                                 event_types_bruno, missing_in_bruno, extra_in_bruno)
    /\ out' = Append(out, "[6/6]")
    /\ pc' = "print_summary"
    /\ UNCHANGED <<inputs, report, go_fields, bruno_events, event_types_go,
                   event_types_bruno, exit_code>>

----------------------------------------------------------------------------
(* print_summary and main *)

\* The figures and the issue list that print_summary prints (the list is
\* cut after 50 entries, more than a run of the model produces).
Summary ==
    [go_fields |-> Cardinality(DOMAIN go_fields),
     event_types_go |-> Cardinality(event_types_go),
     bruno_files |-> Len(bruno_events),
     event_types_bruno |-> Cardinality(event_types_bruno),
     passed |-> results.passed,
     failed |-> results.failed,
     warnings |-> results.warnings,
     issues |-> results.errors]

print_summary ==
    /\ pc = "print_summary"
    /\ out' = out \o <<"AUDIT SUMMARY",
                       IF is_success(results) THEN "AUDIT PASSED" ELSE "AUDIT FAILED">>
    /\ report' = Append(report, Summary)
    /\ pc' = "exit"
    /\ UNCHANGED <<inputs, go_fields, bruno_events, event_types_go,
                   event_types_bruno, results, exit_code>>

\* sys.exit(0 if results.is_success() else 1)
main ==
    /\ pc = "exit"
    /\ exit_code' = IF is_success(results) THEN 0 ELSE 1
    /\ pc' = "done"
    /\ UNCHANGED <<inputs, report, go_fields, bruno_events, event_types_go,
                   event_types_bruno, results, out>>

Next ==
    \/ parse_go_struct
    \/ parse_event_types_enum
    \/ parse_bruno_files
    \/ validate_bruno_payloads
    \/ validate_guid_fields
    \/ validate_event_counts
    \/ print_summary
    \/ main

Spec == Init /\ [][Next]_vars

----------------------------------------------------------------------------
(* The three validation methods called in any order *)

Passes == {"validate_bruno_payloads", "validate_guid_fields",
           "validate_event_counts"}

Banner(pass) ==
    CASE pass = "validate_bruno_payloads" -> "[4/6]"
      [] pass = "validate_guid_fields" -> "[5/6]"
      [] OTHER -> "[6/6]"

\* The effect on self.results of calling the methods in the given order.
RECURSIVE ApplyPasses(_, _, _, _)
ApplyPasses(order, r, missing_in_bruno, extra_in_bruno) ==
    IF order = <<>> THEN r
    ELSE LET r1 == CASE Head(order) = "validate_bruno_payloads" ->
                          PayloadsPass(r, bruno_events, go_fields)
                     [] Head(order) = "validate_guid_fields" ->
                          GuidsPass(r, bruno_events)
                     [] OTHER ->
                          CountsPass(r, bruno_events, event_types_go,
                                     event_types_bruno, missing_in_bruno,
                                     extra_in_bruno)
         IN ApplyPasses(Tail(order), r1, missing_in_bruno, extra_in_bruno)

validate_any_order ==
    /\ pc = "validate_bruno_payloads"
    /\ \E order \in Listings(Passes) :
         \E missing_in_bruno \in Listings(event_types_go \ event_types_bruno) :
           \E extra_in_bruno \in Listings(event_types_bruno \ event_types_go) :
             /\ results' = ApplyPasses(order, results, missing_in_bruno,
                                       extra_in_bruno)
             /\ out' = out \o [i \in 1..3 |-> Banner(order[i])]
    /\ pc' = "print_summary"
    /\ UNCHANGED <<inputs, report, go_fields, bruno_events, event_types_go,
                   event_types_bruno, exit_code>>

NextAnyOrder ==
    \/ parse_go_struct
    \/ parse_event_types_enum
    \/ parse_bruno_files
    \/ validate_any_order
    \/ print_summary
    \/ main

\* The order of the methods is varied over the runs in which the schema
\* and the sample directory are found.
InitAnyOrder ==
    /\ Init
    /\ events_file.struct
    /\ "guid" \notin { t.json_name : t \in events_file.tags }
    /\ enum_file.exists
    /\ Cardinality(enum_file.consts) # 1
    /\ bruno_dir.exists

SpecAnyOrder == InitAnyOrder /\ [][NextAnyOrder]_vars

----------------------------------------------------------------------------
(* run_audit called again on the same auditor *)

\* Number of calls of run_audit on one auditor.
MaxRuns == 2

\* run_audit has returned and is called again; nothing in run_audit
\* assigns the attributes that __init__ has set.
run_audit_again ==
    /\ pc = "exit"
    /\ Len(report) < MaxRuns
    /\ pc' = "parse_go_struct"
    /\ UNCHANGED <<inputs, report, go_fields, bruno_events, event_types_go,
                   event_types_bruno, results, out, exit_code>>

NextRerun ==
    \/ Next
    \/ run_audit_again

SpecRerun == Init /\ [][NextRerun]_vars

----------------------------------------------------------------------------
(* Vocabulary of the properties *)

PcOrder == <<"parse_go_struct", "parse_event_types_enum", "parse_bruno_files",
             "validate_bruno_payloads", "validate_guid_fields",
             "validate_event_counts", "print_summary", "exit", "done">>

PcIndex(p) == CHOOSE i \in 1..Len(PcOrder) : PcOrder[i] = p

\* The method named p has returned.
Returned(p) == PcIndex(pc) > PcIndex(p)

Issues == results.errors

\* Number of issues that satisfy Q.
NumIssues(Q(_)) == Cardinality({ i \in 1..Len(Issues) : Q(Issues[i]) })

IsError(m) == ~m.warn

IsWarning(m) == m.warn

Samples == { bruno_events[i] : i \in 1..Len(bruno_events) }

LoadedFiles == { e.file_name : e \in Samples }

ObservedTypes == { e.event_type : e \in Samples }

HasKey(e, k) == k \in DOMAIN e.payload

WireKeys == DOMAIN go_fields

PassAKinds == {"Uses 'event_type' instead of 'type'", "Ambiguous 'guid' field",
               "Unknown field"}

\* The files of the directory whose body block has the given form.
FilesWithBody(b) ==
    { f \in FileNames : bruno_dir.exists /\ bruno_dir.files[f].body = b }

----------------------------------------------------------------------------
(* C1 *)

\* C1: at the end of every run the exit code is 0 if and only if the failed
\* counter is 0, and 1 otherwise, whatever the number of warnings; the
\* summary prints the same verdict.
C1_SuccessIffNoFailure ==
    pc = "done" =>
        /\ (exit_code = 0) <=> (results.failed = 0)
        /\ (exit_code = 1) <=> (results.failed > 0)
        /\ (out[Len(out)] = "AUDIT PASSED") <=> (results.failed = 0)

C1_Witness ==
    /\ pc = "done"
    /\ results.warnings > 0
    /\ results.failed = 0
    /\ exit_code = 0

----------------------------------------------------------------------------
(* C2 *)

NoIdentityViolation(e) ==
    /\ ~HasKey(e, "guid")
    /\ e.event_type \in combat_events =>
          HasKey(e, "attacker_guid") /\ HasKey(e, "victim_guid")
    /\ e.event_type \in single_player_events => HasKey(e, "player_guid")

ConsistentInputs ==
    /\ \A e \in Samples :
          /\ HasKey(e, "type")
          /\ DOMAIN e.payload \ {"type"} \subseteq WireKeys
          /\ NoIdentityViolation(e)
    /\ ObservedTypes = event_types_go
    /\ Cardinality(event_types_go) = expected_count
    /\ Cardinality(ObservedTypes) = expected_count
    /\ Len(bruno_events) = expected_count

\* C2: a run over consistent inputs (every sample has `type`, every other
\* sample key is a wire key, observed types = canonical types, the three
\* counts equal the expected count, no identity rule violated) records no
\* Error and no Warning and exits with 0, also when `type` is not a wire key.
C2_ConsistentInputsPass ==
    (pc = "done" /\ ConsistentInputs) =>
        /\ results.failed = 0
        /\ results.warnings = 0
        /\ exit_code = 0

----------------------------------------------------------------------------
(* C3 *)

\* Errors that name the file and the key.
ErrorsNaming(file, key) ==
    NumIssues(LAMBDA m : IsError(m) /\ m.file = file /\ m.key = key)

PassAErrorsNaming(file, key) ==
    NumIssues(LAMBDA m : /\ IsError(m) /\ m.kind \in PassAKinds
                         /\ m.file = file /\ m.key = key)

\* C3 as stated: every key other than `type` of every loaded sample that is
\* not a wire key has exactly one Error naming the file and the key.
C3_Original ==
    pc = "done" =>
        \A e \in Samples : \A k \in DOMAIN e.payload \ {"type"} :
            k \notin WireKeys => ErrorsNaming(e.file_name, k) = 1

\* C3 amended: for a sample that has the `type` key, every key other than
\* `type` that is not a wire key has exactly one Pass A Error naming the
\* file and the key; for a sample without `type` Pass A records no Error
\* for its keys; the key `guid` has one further Error from Pass C.
C3_UnknownKeyReported ==
    pc = "done" =>
        \A e \in Samples : \A k \in DOMAIN e.payload \ {"type"} :
            k \notin WireKeys =>
                /\ PassAErrorsNaming(e.file_name, k) =
                      IF HasKey(e, "type") THEN 1 ELSE 0
                /\ ErrorsNaming(e.file_name, k) =
                      PassAErrorsNaming(e.file_name, k)
                        + IF k = "guid" THEN 1 ELSE 0

C3_Witness ==
    /\ pc = "done"
    /\ \E e \in Samples :
          /\ HasKey(e, "type") /\ HasKey(e, "c") /\ "c" \notin WireKeys
          /\ ErrorsNaming(e.file_name, "c") = 1
    /\ \E e \in Samples :
          /\ ~HasKey(e, "type") /\ HasKey(e, "c") /\ "c" \notin WireKeys
          /\ ErrorsNaming(e.file_name, "c") = 0

----------------------------------------------------------------------------
(* C4 *)

MissingKind == "in Go but missing in Bruno"

ExtraKind == "in Bruno but not in Go enum"

TypeErrors(kind, t) ==
    NumIssues(LAMBDA m : IsError(m) /\ m.kind = kind /\ m.etype = t)

\* C4: once validate_event_counts has returned, every canonical type that no
\* sample of the corpus has is named by exactly one 'missing' Error, every
\* type of a sample that is not canonical by exactly one 'extra' Error, and
\* there is no other Error of these two kinds (none at all when the two
\* sets are equal).
C4_TypeCoverage ==
    Returned("validate_event_counts") =>
        /\ \A t \in event_types_go \ ObservedTypes : TypeErrors(MissingKind, t) = 1
        /\ \A t \in ObservedTypes \ event_types_go : TypeErrors(ExtraKind, t) = 1
        /\ NumIssues(LAMBDA m : m.kind = MissingKind) =
              Cardinality(event_types_go \ ObservedTypes)
        /\ NumIssues(LAMBDA m : m.kind = ExtraKind) =
              Cardinality(ObservedTypes \ event_types_go)

C4_Witness ==
    /\ pc = "done"
    /\ \E t \in event_types_go \ ObservedTypes : TypeErrors(MissingKind, t) = 1
    /\ \E t \in ObservedTypes \ event_types_go : TypeErrors(ExtraKind, t) = 1
    /\ \E t \in event_types_go : t \in ObservedTypes

----------------------------------------------------------------------------
(* C5 *)

CountKind == "Event count mismatch"

CountsAllMatch ==
    /\ Cardinality(event_types_go) = expected_count
    /\ Cardinality(ObservedTypes) = expected_count
    /\ Len(bruno_events) = expected_count

\* C5: once validate_event_counts has returned, there is no count-mismatch
\* issue if the canonical count, the distinct observed type count and the
\* sample count all equal the expected count, and otherwise exactly one,
\* an Error that carries the three numbers.
C5_CountReconciliation ==
    Returned("validate_event_counts") =>
        IF CountsAllMatch
          THEN NumIssues(LAMBDA m : m.kind = CountKind) = 0
          ELSE /\ NumIssues(LAMBDA m : m.kind = CountKind) = 1
               /\ NumIssues(LAMBDA m :
                     /\ IsError(m)
                     /\ m.kind = CountKind
                     /\ m.nums = <<Cardinality(event_types_go),
                                   Cardinality(ObservedTypes),
                                   Len(bruno_events), expected_count>>) = 1

\* Two of the three counts are the expected one, the third is not.
C5_Witness ==
    /\ pc = "done"
    /\ Cardinality(event_types_go) = expected_count
    /\ Len(bruno_events) = expected_count
    /\ Cardinality(ObservedTypes) # expected_count
    /\ NumIssues(LAMBDA m : m.kind = CountKind) = 1

----------------------------------------------------------------------------
(* C6 *)

\* C6: a file whose body block is not JSON has exactly one Error, and it is
\* no sample of the corpus: the corpus, the observed types and the sample
\* count are those of the other files.
C6_InvalidBodyDropped ==
    Returned("parse_bruno_files") =>
        /\ \A f \in FilesWithBody("invalid") :
              /\ NumIssues(LAMBDA m : m.file = f) = 1
              /\ NumIssues(LAMBDA m : IsError(m) /\ m.file = f
                                      /\ m.kind = "Invalid JSON") = 1
              /\ f \notin LoadedFiles
        /\ \A e \in Samples :
              /\ bruno_dir.files[e.file_name].body = "object"
              /\ e.payload = bruno_dir.files[e.file_name].payload
        /\ event_types_bruno = ObservedTypes
        /\ Len(bruno_events) = Cardinality(LoadedFiles)

C6_Witness ==
    /\ pc = "done"
    /\ FilesWithBody("invalid") # {}
    /\ Len(bruno_events) = 1

----------------------------------------------------------------------------
(* C7 *)

GuidErrorsPassC(file) ==
    NumIssues(LAMBDA m : /\ IsError(m) /\ m.kind = "Uses ambiguous 'guid' field"
                         /\ m.file = file)

\* C7 as stated: a loaded sample with the key `guid` has exactly one Error
\* on account of that key in the whole run.
C7_Original ==
    pc = "done" =>
        \A e \in Samples : HasKey(e, "guid") => ErrorsNaming(e.file_name, "guid") = 1

\* C7 amended: a loaded sample with the key `guid` has exactly one Error of
\* validate_guid_fields whatever its event type, and one more Error, of
\* validate_bruno_payloads, if and only if it has the `type` key and `guid`
\* is not a wire key.
C7_BareGuidIsError ==
    pc = "done" =>
        \A e \in Samples : HasKey(e, "guid") =>
            /\ GuidErrorsPassC(e.file_name) = 1
            /\ PassAErrorsNaming(e.file_name, "guid") =
                  IF HasKey(e, "type") /\ "guid" \notin WireKeys THEN 1 ELSE 0
            /\ ErrorsNaming(e.file_name, "guid") =
                  1 + PassAErrorsNaming(e.file_name, "guid")

C7_Witness ==
    /\ pc = "done"
    /\ \E e \in Samples :
          /\ HasKey(e, "guid") /\ e.event_type \in combat_events
          /\ ErrorsNaming(e.file_name, "guid") = 2
    /\ \E e \in Samples :
          /\ HasKey(e, "guid") /\ e.event_type = ""
          /\ ErrorsNaming(e.file_name, "guid") = 1

----------------------------------------------------------------------------
(* C8 *)

WarningsFor(file) == NumIssues(LAMBDA m : IsWarning(m) /\ m.file = file)

LacksPairedIdentity(e) ==
    /\ e.event_type \in combat_events
    /\ ~(HasKey(e, "attacker_guid") /\ HasKey(e, "victim_guid"))

LacksSingleIdentity(e) ==
    /\ e.event_type \in single_player_events
    /\ ~HasKey(e, "player_guid")

\* C8 as stated: the warning rules apply to every sample, with or without
\* the key `guid`.
C8_Original ==
    pc = "done" =>
        \A e \in Samples :
            WarningsFor(e.file_name) =
                IF LacksPairedIdentity(e) \/ LacksSingleIdentity(e) THEN 1 ELSE 0

\* C8 amended: the warning rules apply to every sample that does not carry
\* the key `guid`: such a sample gets exactly one Warning if its type is a
\* combat type and attacker_guid or victim_guid is missing, or if its type
\* is a single-player type and player_guid is missing, and no Warning
\* otherwise; a sample that carries `guid` gets the Error and no Warning.
\* A combat sample that carries only player_guid gets one Warning and no
\* Error from validate_guid_fields, and warnings do not change the exit
\* code.
C8_IdentityWarnings ==
    pc = "done" =>
        /\ \A e \in Samples :
              /\ WarningsFor(e.file_name) =
                    IF /\ ~HasKey(e, "guid")
                       /\ LacksPairedIdentity(e) \/ LacksSingleIdentity(e)
                      THEN 1 ELSE 0
              /\ HasKey(e, "guid") => GuidErrorsPassC(e.file_name) = 1
              /\ ( /\ e.event_type \in combat_events
                   /\ DOMAIN e.payload = {"type", "player_guid"} ) =>
                    /\ NumIssues(LAMBDA m : /\ m.file = e.file_name
                                            /\ m.kind = "Combat event should have"
                                            /\ m.warn
                                            /\ m.actual = <<"player_guid">>) = 1
                    /\ GuidErrorsPassC(e.file_name) = 0
        /\ results.warnings = NumIssues(IsWarning)
        /\ (results.failed = 0) => (exit_code = 0)

\* Scenario 3: a combat sample with only player_guid, one Warning, no Error,
\* exit code 0.
C8_Witness ==
    /\ pc = "done"
    /\ \E e \in Samples :
          /\ e.event_type \in combat_events
          /\ DOMAIN e.payload = {"type", "player_guid"}
    /\ results.warnings = 1
    /\ results.failed = 0
    /\ exit_code = 0

----------------------------------------------------------------------------
(* C9 *)

ExtractionErrors(kind) == NumIssues(LAMBDA m : IsError(m) /\ m.kind = kind)

ExtractionFailed ==
    \/ ~events_file.exists
    \/ ~events_file.struct
    \/ ~enum_file.exists
    \/ ~bruno_dir.exists

AllPhases == <<"[1/6]", "[2/6]", "[3/6]", "[4/6]", "[5/6]", "[6/6]",
               "AUDIT SUMMARY", "AUDIT FAILED">>

----------------------------------------------------------------------------
(* C10 *)

LoaderKinds == {"Invalid JSON", "Failed to parse"}

\* C10: a file whose body block is a JSON array with one object is loaded:
\* the corpus has one sample for it, with the keys of the object and the
\* object's `type` as event type, and the loader records no Error for it.
C10_ArrayBodyAccepted ==
    Returned("parse_bruno_files") =>
        \A f \in FilesWithBody("array") :
            /\ \E e \in Samples :
                  /\ e.file_name = f
                  /\ e.payload = bruno_dir.files[f].payload
                  /\ e.event_type = bruno_dir.files[f].payload["type"]
            /\ NumIssues(LAMBDA m : m.file = f /\ m.kind \in LoaderKinds) = 0

----------------------------------------------------------------------------
(* C11 *)

PassCKinds == {"Uses ambiguous 'guid' field", "Combat event should have",
               "Single-player event should have player_guid"}

\* The pass that an issue of a validation method belongs to.
PassOf(m) ==
    CASE m.kind \in PassAKinds \cup {"Missing required 'type' field"} -> "A"
      [] m.kind \in {MissingKind, ExtraKind} -> "B"
      [] m.kind \in PassCKinds -> "C"
      [] m.kind = CountKind -> "D"
      [] OTHER -> "none"

\* The issues of the passes come in the order given by rank.
InPassOrder(rank) ==
    \A i, j \in 1..Len(Issues) :
        (i < j /\ PassOf(Issues[i]) # "none" /\ PassOf(Issues[j]) # "none")
            => rank[PassOf(Issues[i])] <= rank[PassOf(Issues[j])]

\* C11 as stated: in the issue sequence the issues of Pass A precede those
\* of Pass B, which precede those of Pass C, which precede that of Pass D.
C11_Original ==
    InPassOrder([A |-> 1, B |-> 2, C |-> 3, D |-> 4])

\* C11 amended: in the issue sequence the issues of the passes come in the
\* fixed order A, C, D, B: field membership, then identity disambiguation,
\* then the count reconciliation issue, then type coverage.
C11_PassOrder ==
    InPassOrder([A |-> 1, C |-> 2, D |-> 3, B |-> 4])

C11_Witness ==
    /\ pc = "done"
    /\ \A p \in {"A", "B", "C", "D"} : NumIssues(LAMBDA m : PassOf(m) = p) > 0

----------------------------------------------------------------------------
(* C12 *)

Range(s) == { s[i] : i \in 1..Len(s) }

\* The multiset of the elements of a sequence.
BagOf(s) == [m \in Range(s) |-> Cardinality({ i \in 1..Len(s) : s[i] = m })]

\* self.results after the three methods in the order of run_audit.
InCodeOrder ==
    ApplyPasses(<<"validate_bruno_payloads", "validate_guid_fields",
                  "validate_event_counts">>, results,
                SortedTypes(event_types_go \ event_types_bruno),
                SortedTypes(event_types_bruno \ event_types_go))

\* C12: whatever the order in which the three validation methods are
\* called on the extracted models, the multiset of issues and the failed
\* and warnings totals are those of the order of run_audit.
C12_OrderInsensitive ==
    [][pc = "validate_bruno_payloads" =>
         /\ BagOf(results'.errors) = BagOf(InCodeOrder.errors)
         /\ results'.failed = InCodeOrder.failed
         /\ results'.warnings = InCodeOrder.warnings]_vars

\* The count check ran first and the field check last, and each of the
\* three methods has recorded an issue.
C12_Witness ==
    /\ pc = "done"
    /\ out[4] = "[6/6]"
    /\ out[6] = "[4/6]"
    /\ \A p \in {"A", "C", "D"} : NumIssues(LAMBDA m : PassOf(m) = p) > 0
    /\ \E e \in Samples : HasKey(e, "guid") /\ HasKey(e, "type")

----------------------------------------------------------------------------
(* C13 *)

\* The file names of S in ascending order.
Ascending(S) == SelectSeq([i \in 1..MaxFiles |-> i], LAMBDA f : f \in S)

\* What the loop of parse_bruno_files leaves when the directory listing is
\* in ascending order.
LoadedAscending ==
    LoadFiles([events |-> bruno_events, types |-> event_types_bruno,
               results |-> results],
              Ascending(GlobFiles(bruno_dir)), bruno_dir)

\* C13: a step of a run has one outcome, which does not depend on the order
\* in which glob yields the files or the iteration of a set yields the
\* event types: parse_bruno_files leaves the corpus, the observed types and
\* the issues of the ascending listing, validate_event_counts leaves the
\* issues of the ascending type order, so that two runs over the same
\* inputs have the same issue sequence, tallies and exit code.
C13_Deterministic ==
    [][ /\ (pc = "parse_bruno_files" /\ bruno_dir.exists) =>
             /\ bruno_events' = LoadedAscending.events
             /\ event_types_bruno' = LoadedAscending.types
             /\ results' = LoadedAscending.results
        /\ pc = "validate_event_counts" =>
             results' = CountsPass(results, bruno_events, event_types_go,
                                   event_types_bruno,
                                   SortedTypes(event_types_go \ event_types_bruno),
                                   SortedTypes(event_types_bruno \ event_types_go))
        /\ pc = "exit" => exit_code' = IF results.failed = 0 THEN 0 ELSE 1
      ]_vars

\* Two samples were loaded and two types are reported as extra, so that
\* both the listing and the set iteration have more than one order.
C13_Witness ==
    /\ pc = "done"
    /\ Len(bruno_events) >= 2
    /\ NumIssues(LAMBDA m : m.kind = ExtraKind) >= 2

----------------------------------------------------------------------------
(* C14 *)

\* C14: a second call of run_audit on the same auditor starts from an empty
\* issue sequence, zero counters and empty models, and the summary it
\* prints equals that of the first call.
C14_RunsReset ==
    /\ (Len(report) = 1 /\ pc = "parse_go_struct") =>
          /\ results = NewResult
          /\ DOMAIN go_fields = {}
          /\ bruno_events = <<>>
          /\ event_types_go = {}
          /\ event_types_bruno = {}
    /\ Len(report) = 2 => report[2] = report[1]

----------------------------------------------------------------------------
(* C15 *)

\* The `type` values of the samples that have the key.
DeclaredTypes == { e.payload["type"] : e \in { s \in Samples : HasKey(s, "type") } }

\* C15: a loaded sample without the `type` key adds no value to the set of
\* observed event types, so that no 'extra' Error names a type that no
\* sample declares and the distinct-type count of the count check is the
\* number of declared types.
C15_NoTypeExcluded ==
    /\ Returned("parse_bruno_files") => event_types_bruno = DeclaredTypes
    /\ Returned("validate_event_counts") =>
          /\ \A i \in 1..Len(Issues) :
                Issues[i].kind = ExtraKind => Issues[i].etype \in DeclaredTypes
          /\ \A i \in 1..Len(Issues) :
                Issues[i].kind = CountKind =>
                    Issues[i].nums[2] = Cardinality(DeclaredTypes)

----------------------------------------------------------------------------
(* C16 *)

\* The canonical set has expected_count types, the corpus has one sample
\* less, of pairwise distinct canonical types, with keys of the schema only
\* and no identity rule violated; the schema and the directory are found
\* and no file of the directory fails to load.
OneTypeUncovered ==
    /\ events_file.struct
    /\ bruno_dir.exists
    /\ FilesWithBody("invalid") \cup FilesWithBody("array") = {}
    /\ Cardinality(event_types_go) = expected_count
    /\ Len(bruno_events) = expected_count - 1
    /\ Cardinality(ObservedTypes) = Len(bruno_events)
    /\ ObservedTypes \subseteq event_types_go
    /\ \A e \in Samples :
          /\ DOMAIN e.payload \subseteq WireKeys
          /\ NoIdentityViolation(e)

----------------------------------------------------------------------------
(* C17 *)

MissingTypeErrors(file) ==
    NumIssues(LAMBDA m : /\ IsError(m) /\ m.file = file
                         /\ m.kind = "Missing required 'type' field")

PassAKeyErrors(file) ==
    NumIssues(LAMBDA m : IsError(m) /\ m.file = file /\ m.kind \in PassAKinds)

\* C17: validate_bruno_payloads skips the field checks of a sample exactly
\* when the key `type` is absent: a sample without the key has one
\* 'missing type' Error and no Error for a key; a sample with the key,
\* the empty string as value included, has no 'missing type' Error and one
\* Error for each of its keys that is not a wire key.
C17_SkipIffTypeAbsent ==
    Returned("validate_bruno_payloads") =>
        \A e \in Samples :
            IF ~HasKey(e, "type")
              THEN /\ MissingTypeErrors(e.file_name) = 1
                   /\ PassAKeyErrors(e.file_name) = 0
              ELSE /\ MissingTypeErrors(e.file_name) = 0
                   /\ \A k \in DOMAIN e.payload :
                         PassAErrorsNaming(e.file_name, k) =
                             IF k \in WireKeys THEN 0 ELSE 1
                   /\ PassAKeyErrors(e.file_name) =
                         Cardinality(DOMAIN e.payload \ WireKeys)

\* A sample with the empty type and an unknown key, and a sample without
\* the key `type` that has an unknown key.
C17_Witness ==
    /\ pc = "done"
    /\ \E e \in Samples :
          /\ HasKey(e, "type") /\ e.event_type = ""
          /\ PassAKeyErrors(e.file_name) >= 1
    /\ \E e \in Samples :
          /\ ~HasKey(e, "type")
          /\ DOMAIN e.payload \ WireKeys # {}

----------------------------------------------------------------------------
(* C18 *)

TallyOf(r) ==
    /\ r.failed = Cardinality({ i \in 1..Len(r.errors) : ~r.errors[i].warn })
    /\ r.warnings = Cardinality({ i \in 1..Len(r.errors) : r.errors[i].warn })
    /\ Len(r.errors) = r.failed + r.warnings

\* C18: in every state failed is the number of Error entries of the issue
\* sequence, warnings the number of Warning entries and the length of the
\* sequence their sum; every step appends to the sequence and no counter
\* decreases.
C18_Tally ==
    [][ /\ TallyOf(results)
        /\ TallyOf(results')
        /\ Len(results'.errors) >= Len(results.errors)
        /\ SubSeq(results'.errors, 1, Len(results.errors)) = results.errors
        /\ results'.failed >= results.failed
        /\ results'.warnings >= results.warnings
        /\ results'.passed >= results.passed ]_vars

C18_Witness ==
    /\ pc = "done"
    /\ results.failed >= 2
    /\ results.warnings >= 1

----------------------------------------------------------------------------
(* C19 *)

\* The files named by the issues of the given kinds, in the order of the
\* issue sequence.
FilesOf(kinds) ==
    LET sel == SelectSeq(Issues, LAMBDA m : m.kind \in kinds)
    IN [i \in 1..Len(sel) |-> sel[i].file]

NonDecreasing(s) == \A i, j \in 1..Len(s) : i < j => s[i] <= s[j]

Increasing(s) == \A i, j \in 1..Len(s) : i < j => s[i] < s[j]

\* C19: the corpus is in ascending order of file name, and so are the
\* issues of the loader, those of validate_bruno_payloads and those of
\* validate_guid_fields, whatever the order in which glob yields the files.
C19_FileNameOrder ==
    /\ Increasing([i \in 1..Len(bruno_events) |-> bruno_events[i].file_name])
    /\ Increasing(FilesOf(LoaderKinds))
    /\ NonDecreasing(FilesOf(PassAKinds \cup {"Missing required 'type' field"}))
    /\ Increasing(FilesOf(PassCKinds))

\* Two samples, each with an issue of Pass A and of Pass C.
C19_Witness ==
    /\ pc = "done"
    /\ Len(bruno_events) = 2
    /\ Len(FilesOf(PassAKinds \cup {"Missing required 'type' field"})) >= 2
    /\ Len(FilesOf(PassCKinds)) = 2

----------------------------------------------------------------------------
(* C20 *)

models == <<go_fields, event_types_go, bruno_events, event_types_bruno>>

\* C20: the three validation methods and print_summary leave the schema
\* fields, the canonical types, the corpus and the observed types as they
\* are, and print_summary leaves the issue sequence and the counters as
\* they are.
C20_ValidatorsReadOnly ==
    [][ /\ pc \in Passes \cup {"print_summary"} => UNCHANGED models
        /\ pc = "print_summary" => UNCHANGED results ]_vars

\* A run with a non-empty corpus and issues has printed its summary.
C20_Witness ==
    /\ pc = "done"
    /\ Len(report) = 1
    /\ Len(bruno_events) = 2
    /\ \E e \in Samples : HasKey(e, "guid")
    /\ report[1].issues = results.errors

----------------------------------------------------------------------------
(* C21 *)

\* What the loop of parse_bruno_files leaves for the directory without its
\* files that have no body:json block.
LoadedWithoutBodyless ==
    LoadFiles([events |-> bruno_events, types |-> event_types_bruno,
               results |-> results],
              Ascending(GlobFiles(bruno_dir) \ FilesWithBody("none")), bruno_dir)

\* C21: a file without a body:json block is skipped silently.  No issue of
\* the run names it and it is no sample of the corpus; parse_bruno_files
\* leaves the corpus, the observed types, the issues and the counters that
\* it leaves for the directory without the file, so that the file shows
\* only in the sample count being one less than the number of files.
C21_BodylessSkipped ==
    [][ /\ \A f \in FilesWithBody("none") :
             /\ \A i \in 1..Len(results'.errors) : results'.errors[i].file # f
             /\ \A i \in 1..Len(bruno_events') : bruno_events'[i].file_name # f
        /\ (pc = "parse_bruno_files" /\ bruno_dir.exists) =>
             /\ bruno_events' = LoadedWithoutBodyless.events
             /\ event_types_bruno' = LoadedWithoutBodyless.types
             /\ results' = LoadedWithoutBodyless.results
             /\ Len(bruno_events') <=
                   Cardinality(GlobFiles(bruno_dir)) - Cardinality(FilesWithBody("none"))
      ]_vars

\* A directory of a file without body block and a sample: the run ends with
\* the count mismatch that reports one sample and no other issue.
C21_Witness ==
    /\ pc = "done"
    /\ FilesWithBody("none") # {}
    /\ Len(bruno_events) = 1
    /\ Len(Issues) = 2
    /\ NumIssues(LAMBDA m : m.kind = CountKind /\ m.nums[3] = 1) = 1

====
